---- MODULE Spec2Model ----
(***************************************************************************)
(* Model of fetch_more_colors.py: the merge/dedup pipeline that rebuilds   *)
(* ColorNamer.kt from the existing artifact and an external colour list,   *)
(* and of the getColorName matcher that the generated artifact contains.   *)
(*                                                                         *)
(* Text is a sequence of characters; a character is a one-character        *)
(* string.  Fixed pieces of the artifact that contain no quote, digit or   *)
(* "NamedColor" are carried as single opaque tokens.                       *)
(***************************************************************************)
EXTENDS Integers, Sequences, FiniteSets, TLC

VARIABLES
    pc,                 \* position of main(): fetch, flatten, read, seed, merge, write, done, aborted
    provider,           \* what the remote endpoint would answer (decoded JSON)
    disk,               \* text of ColorNamer.kt on disk
    new_colors_data,    \* main: result of get_more_colors()
    parsed_new_colors,  \* main: flattened {name, hex} records
    existing_matches,   \* main: pattern.findall(content)
    final_colors,       \* main: the catalog being built
    seen_hex,           \* main: set of hex strings
    seen_names,         \* main: set of lowercased names
    added_count,        \* main: number of admitted records
    idx,                \* main: index of the next record of the merge loop
    colorList,          \* ColorNamer.colorList
    query,              \* getColorName: <<r, g, b>> of the argument
    minDistance,        \* getColorName: local
    closestColorName,   \* getColorName: local
    mpc,                \* getColorName: position (off, idle, loop, returned)
    mi                  \* getColorName: loop index

vars == <<pc, provider, disk, new_colors_data, parsed_new_colors,
          existing_matches, final_colors, seen_hex, seen_names, added_count,
          idx, colorList, query, minDistance, closestColorName, mpc, mi>>

pipeVars == <<pc, provider, disk, new_colors_data, parsed_new_colors,
              existing_matches, final_colors, seen_hex, seen_names,
              added_count, idx>>

matchVars == <<colorList, query, minDistance, closestColorName, mpc, mi>>

(***************************************************************************)
(* Bounds of the explored inputs.                                          *)
(***************************************************************************)
MaxRecords == 2     \* records the provider returns
MaxExisting == 2    \* NamedColor literals in the artifact at start
MaxCatalog == 3     \* entries of colorList in the matcher runs

(***************************************************************************)
(* Python str primitives on character sequences.                           *)
(***************************************************************************)
UpperLetters ==
    <<"A","B","C","D","E","F","G","H","I","J","K","L","M",
      "N","O","P","Q","R","S","T","U","V","W","X","Y","Z">>

LowerLetters ==
    <<"a","b","c","d","e","f","g","h","i","j","k","l","m",
      "n","o","p","q","r","s","t","u","v","w","x","y","z">>

HexDigits ==
    <<"0","1","2","3","4","5","6","7","8","9","a","b","c","d","e","f">>

Range(s) == {s[i] : i \in DOMAIN s}

IndexOf(c, s) == CHOOSE i \in DOMAIN s : s[i] = c

UpperSet == Range(UpperLetters)

LowerSet == Range(LowerLetters)

HexDigitSet == Range(HexDigits)

IsUpper(c) == c \in UpperSet

IsLower(c) == c \in LowerSet

IsCased(c) == IsUpper(c) \/ IsLower(c)

LowerChar(c) == IF IsUpper(c) THEN LowerLetters[IndexOf(c, UpperLetters)] ELSE c

UpperChar(c) == IF IsLower(c) THEN UpperLetters[IndexOf(c, LowerLetters)] ELSE c

\* str.lower()
Lower(s) == [i \in DOMAIN s |-> LowerChar(s[i])]

\* str.title(): a cased character is uppercased when the character before it
\* is not cased (or there is none), lowercased otherwise
Title(s) ==
    [i \in DOMAIN s |->
        IF i > 1 /\ IsCased(s[i-1]) THEN LowerChar(s[i]) ELSE UpperChar(s[i])]

IsSpace(c) == c \in {" ", "\n", "\t", "        "}

RECURSIVE LStrip(_, _)
\* str.lstrip(chars): drops every leading character that is in chars
LStrip(s, chars) ==
    IF s # <<>> /\ Head(s) \in chars THEN LStrip(Tail(s), chars) ELSE s

RECURSIVE RStripSpace(_)
RStripSpace(s) ==
    IF s # <<>> /\ IsSpace(s[Len(s)]) THEN RStripSpace(SubSeq(s, 1, Len(s) - 1)) ELSE s

\* str.strip()
Strip(s) == RStripSpace(LStrip(s, {" ", "\n", "\t"}))

\* s[lo:hi] of Python (0-based, hi exclusive, clamped to the string)
Slice(s, lo, hi) ==
    SubSeq(s, lo + 1, IF hi < Len(s) THEN hi ELSE Len(s))

RECURSIVE Replace(_, _, _)
\* str.replace(old, new) for a one-character old
Replace(s, old, new) ==
    IF s = <<>> THEN <<>>
    ELSE (IF Head(s) = old THEN new ELSE <<Head(s)>>) \o Replace(Tail(s), old, new)

IsHexDigit(c) == LowerChar(c) \in HexDigitSet

HexVal(c) == IndexOf(LowerChar(c), HexDigits) - 1

RECURSIVE HexValue(_, _)
HexValue(s, acc) ==
    IF s = <<>> THEN acc ELSE HexValue(Tail(s), acc * 16 + HexVal(Head(s)))

\* int(s, 16) for the slices hex_to_rgb passes (at most two characters):
\* surrounding whitespace is dropped, one sign is allowed, and what is left
\* must be a non-empty run of hex digits; anything else raises ValueError
ParseInt16(s) ==
    LET t == Strip(s)
        neg == t # <<>> /\ Head(t) = "-"
        u == IF t # <<>> /\ Head(t) \in {"+", "-"} THEN Tail(t) ELSE t
        good == u # <<>> /\ \A i \in DOMAIN u : IsHexDigit(u[i])
    IN  IF good
        THEN [ok |-> TRUE, v |-> IF neg THEN 0 - HexValue(u, 0) ELSE HexValue(u, 0)]
        ELSE [ok |-> FALSE, v |-> 0]

RECURSIVE HexStr(_)
\* lowercase hex digits of a natural number, no padding
HexStr(n) ==
    IF n < 16 THEN <<HexDigits[n + 1]>>
    ELSE HexStr(n \div 16) \o <<HexDigits[(n % 16) + 1]>>

\* "{:02x}".format(n): sign, digits, zero-padded to a total width of 2
Format02x(n) ==
    LET body == IF n < 0 THEN <<"-">> \o HexStr(0 - n) ELSE HexStr(n)
    IN  IF Len(body) >= 2 THEN body ELSE <<"0">> \o body

DecDigits == <<"0","1","2","3","4","5","6","7","8","9">>

DecDigitSet == Range(DecDigits)

IsDigit(c) == c \in DecDigitSet

RECURSIVE DecStr(_)
DecStr(n) ==
    IF n < 10 THEN <<DecDigits[n + 1]>>
    ELSE DecStr(n \div 10) \o <<DecDigits[(n % 10) + 1]>>

\* f"{n}" of an int
Dec(n) == IF n < 0 THEN <<"-">> \o DecStr(0 - n) ELSE DecStr(n)

RECURSIVE DecValue(_, _)
\* int(s) of a run of decimal digits
DecValue(s, acc) ==
    IF s = <<>> THEN acc
    ELSE DecValue(Tail(s), acc * 10 + (IndexOf(Head(s), DecDigits) - 1))

(***************************************************************************)
(* JSON values the provider can deliver for a name or a hex.               *)
(***************************************************************************)
Str(s) == [kind |-> "str", s |-> s]

Null == [kind |-> "null", s |-> <<>>]

\* truth value of a JSON value in "if name and hex_val"
Truthy(v) == v.kind = "str" /\ v.s # <<>>

(***************************************************************************)
(* hex_to_rgb                                                              *)
(***************************************************************************)
hex_to_rgb(hex_val) ==
    IF hex_val.kind # "str" THEN [ok |-> FALSE, rgb |-> <<0, 0, 0>>]
    ELSE
      LET hex_color == LStrip(hex_val.s, {"#"})
          r == ParseInt16(Slice(hex_color, 0, 2))
          g == ParseInt16(Slice(hex_color, 2, 4))
          b == ParseInt16(Slice(hex_color, 4, 6))
      IN  IF r.ok /\ g.ok /\ b.ok
          THEN [ok |-> TRUE, rgb |-> <<r.v, g.v, b.v>>]
          ELSE [ok |-> FALSE, rgb |-> <<0, 0, 0>>]

(***************************************************************************)
(* Serialization of the catalog (main, step 4) and the extraction pattern. *)
(***************************************************************************)
Quote == "\""

header == <<"package..data class ", "NamedColor", "(", "val name..listOf(", "\n">>

footer == <<"    )", "\n", "fun getColorName..}", "\n">>

\* name.replace('"', '\"'): in Python source '\"' is the one character '"'
safe_name(name) == Replace(name, Quote, <<Quote>>)

list_item(e) ==
    <<"        ", "NamedColor", "(", Quote>> \o safe_name(e[1]) \o <<Quote, ",", " ">>
      \o Dec(e[2]) \o <<",", " ">> \o Dec(e[3]) \o <<",", " ">> \o Dec(e[4]) \o <<")">>

RECURSIVE Join(_, _)
Join(sep, items) ==
    IF items = <<>> THEN <<>>
    ELSE IF Len(items) = 1 THEN items[1]
    ELSE items[1] \o sep \o Join(sep, Tail(items))

full_content(colors) ==
    header \o Join(<<",", "\n">>, [i \in DOMAIN colors |-> list_item(colors[i])])
           \o <<"\n">> \o footer

At(text, j) == IF j >= 1 /\ j <= Len(text) THEN text[j] ELSE "<eof>"

RECURSIVE SkipSpace(_, _)
\* \s*
SkipSpace(text, j) ==
    IF IsSpace(At(text, j)) THEN SkipSpace(text, j + 1) ELSE j

RECURSIVE SkipNonQuote(_, _)
\* [^"]* (greedy)
SkipNonQuote(text, j) ==
    IF j <= Len(text) /\ text[j] # Quote THEN SkipNonQuote(text, j + 1) ELSE j

RECURSIVE SkipDigits(_, _)
\* \d* (greedy)
SkipDigits(text, j) ==
    IF IsDigit(At(text, j)) THEN SkipDigits(text, j + 1) ELSE j

\* \s*,\s*(\d+) starting at j
MatchNumber(text, j) ==
    LET c == SkipSpace(text, j)
        d == SkipSpace(text, c + 1)
        e == SkipDigits(text, d)
    IN  [ok |-> At(text, c) = "," /\ e > d, from |-> d, end |-> e]

\* the pattern of main, anchored at position i:
\* NamedColor\s*\(\s*"([^"]+)"\s*,\s*(\d+)\s*,\s*(\d+)\s*,\s*(\d+)\s*\)
MatchAt(text, i) ==
    LET p == SkipSpace(text, i + 1)
        q == SkipSpace(text, p + 1)
        n == SkipNonQuote(text, q + 1)
        r == MatchNumber(text, n + 1)
        g == MatchNumber(text, r.end)
        b == MatchNumber(text, g.end)
        z == SkipSpace(text, b.end)
        ok == /\ At(text, i) = "NamedColor"
              /\ At(text, p) = "("
              /\ At(text, q) = Quote
              /\ n > q + 1
              /\ At(text, n) = Quote
              /\ r.ok /\ g.ok /\ b.ok
              /\ At(text, z) = ")"
    IN  IF ok
        THEN [ok |-> TRUE, end |-> z + 1,
              groups |-> <<SubSeq(text, q + 1, n - 1),
                           SubSeq(text, r.from, r.end - 1),
                           SubSeq(text, g.from, g.end - 1),
                           SubSeq(text, b.from, b.end - 1)>>]
        ELSE [ok |-> FALSE, end |-> i, groups |-> <<>>]

RECURSIVE FindAll(_, _)
\* pattern.findall(content): leftmost matches, non-overlapping
FindAll(text, i) ==
    IF i > Len(text) THEN <<>>
    ELSE LET m == MatchAt(text, i)
         IN  IF m.ok THEN <<m.groups>> \o FindAll(text, m.end)
             ELSE FindAll(text, i + 1)

findall(content) == FindAll(content, 1)

\* "r, g, b = int(r), int(g), int(b)" and the tuple appended to final_colors
existing_entry(m) == <<m[1], DecValue(m[2], 0), DecValue(m[3], 0), DecValue(m[4], 0)>>

\* hex_val = "#{:02x}{:02x}{:02x}".format(r, g, b)
format_hex(r, g, b) == <<"#">> \o Format02x(r) \o Format02x(g) \o Format02x(b)

(***************************************************************************)
(* Inputs: what the provider can answer and what the artifact can hold.    *)
(***************************************************************************)
nAb == <<"a", "b">>
nAB == <<"A", "B">>
nCd == <<"c", "d">>
nEf == <<"e", "f">>
nBlank == <<" ">>
nQuoted == <<"a", Quote>>

\* a lone surrogate, which json.loads produces from "\ud800" and which the
\* encoder of a text file refuses
Surrogate == "<U+D800>"

nSurrogate == <<"x", Surrogate>>

hRedUpper == <<"#", "F", "F", "0", "0", "0", "0">>
hRedBare == <<"f", "f", "0", "0", "0", "0">>
hGreen == <<"#", "0", "0", "f", "f", "0", "0">>
hBlue == <<"#", "0", "0", "0", "0", "f", "f">>
hFive == <<"f", "f", "f", "f", "f">>
hSeven == <<"#", "f", "f", "0", "0", "0", "0", "1">>
hSigned == <<"-", "f", "-", "f", "-", "f">>
hNonHex == <<"z", "z", "z", "z", "z", "z">>
hTwoHashes == <<"#", "#", "f", "f", "0", "0", "0", "0">>

Rec(name, hex) == [obj |-> TRUE, name |-> name, hex |-> hex]

\* well-formed records: two names on one uppercase spelling of red, and two
\* spellings of one name on the key an existing green entry is stored under
PlainRecords ==
    {Rec(Str(nAb), Str(hRedUpper)), Rec(Str(nCd), Str(hRedUpper)),
     Rec(Str(nAb), Str(hGreen)), Rec(Str(nAB), Str(hGreen))}

\* one name against the hex spellings the normalizer has to judge
HexRecords ==
    {Rec(Str(nEf), Str(h)) :
        h \in {hRedBare, hFive, hSeven, hSigned, hNonHex, hTwoHashes}}

\* one hex against the names the merge has to judge
NameRecords ==
    {Rec(Str(n), Str(hBlue)) : n \in {nBlank, nQuoted, nSurrogate}}

\* names that are empty or null
NoNameRecords == {Rec(Str(<<>>), Str(hBlue)), Rec(Null, Str(hBlue))}

\* a list element without a hex, and a list element that is not an object
NoHexRecord == Rec(Str(nCd), Null)

NotAnObject == [obj |-> FALSE, name |-> Null, hex |-> Null]

\* in a list a record without a name and a record without a hex are both
\* dropped by the same test
ListItems ==
    PlainRecords \cup HexRecords \cup NameRecords
    \cup {Rec(Null, Str(hBlue)), NoHexRecord, NotAnObject}

\* a JSON object has string keys, each once, and any value; the mapping
\* shape differs from the list shape only in the flattening, so it is
\* explored with the names the flattening has to judge, two hexes that do
\* not parse and two well-formed records
DictItems ==
    NameRecords \cup NoNameRecords
    \cup {Rec(Str(nEf), Str(<<>>)), Rec(Str(nEf), Str(hNonHex)),
          Rec(Str(nCd), Str(hRedUpper)), Rec(Str(nAb), Str(hGreen))}

SeqsUpTo(S, n) == UNION {[1..k -> S] : k \in 0..n}

Providers ==
    {[shape |-> "list", items |-> x] : x \in SeqsUpTo(ListItems, MaxRecords)}
    \cup
    {[shape |-> "dict", items |-> x] :
        x \in {y \in SeqsUpTo(DictItems, MaxRecords) :
                 \A i, j \in DOMAIN y : i # j => y[i].hex # y[j].hex}}

ExistingEntries == {<<<<"A", "b">>, 255, 0, 0>>, <<<<"C", "d">>, 0, 255, 0>>}

ExistingLists == SeqsUpTo(ExistingEntries, MaxExisting)

(***************************************************************************)
(* main, step 1: flattening of the fetched data.                           *)
(***************************************************************************)
RECURSIVE flatten_list(_)
\* the loop over a list: item.get raises on an element that is not an object
flatten_list(items) ==
    IF items = <<>> THEN [raised |-> FALSE, out |-> <<>>]
    ELSE IF ~Head(items).obj THEN [raised |-> TRUE, out |-> <<>>]
    ELSE LET rest == flatten_list(Tail(items))
             item == Head(items)
             keep == Truthy(item.name) /\ Truthy(item.hex)
         IN  [raised |-> rest.raised,
              out |-> (IF keep THEN <<[name |-> item.name, hex |-> item.hex]>> ELSE <<>>)
                        \o rest.out]

\* the loop over a dict: every key/value pair is kept
flatten_dict(items) ==
    [raised |-> FALSE,
     out |-> [i \in DOMAIN items |-> [name |-> items[i].name, hex |-> items[i].hex]]]

flatten(data) ==
    IF data.shape = "list" THEN flatten_list(data.items) ELSE flatten_dict(data.items)

(***************************************************************************)
(* main, step 3: seeding from the existing entries and the merge loop.     *)
(***************************************************************************)
add_color_front(colors, e) == <<e>> \o colors

\* "final_colors.append(...)" of the seeding loop and of the merge loop
add_color(colors, e) == Append(colors, e)

RECURSIVE seed_from(_, _)
\* "for name, r, g, b in existing_matches: ... final_colors.append(...)"
seed_from(colors, matches) ==
    IF matches = <<>> THEN colors
    ELSE seed_from(add_color(colors, existing_entry(Head(matches))), Tail(matches))

seed_colors(matches) == seed_from(<<>>, matches)

\* the state after "for name, r, g, b in existing_matches" and "added_count = 0"
seed_state(colors) ==
    [final_colors |-> colors,
     seen_hex |-> {format_hex(colors[i][2], colors[i][3], colors[i][4]) : i \in DOMAIN colors},
     seen_names |-> {Lower(colors[i][1]) : i \in DOMAIN colors},
     added_count |-> 0]

\* "if hex_val in seen_hex"
hex_seen(hex_val, seen) == hex_val.kind = "str" /\ hex_val.s \in seen

name_seen_exact(clean_name, seen) == clean_name \in seen

\* "if clean_name.lower() in seen_names"
name_seen(clean_name, seen) == Lower(clean_name) \in seen

admit_eager(st, clean_name, hex_val, res) ==
    IF res.ok
    THEN [final_colors |-> add_color(st.final_colors,
                             <<clean_name, res.rgb[1], res.rgb[2], res.rgb[3]>>),
          seen_hex |-> st.seen_hex \cup {hex_val.s},
          seen_names |-> st.seen_names \cup {Lower(clean_name)},
          added_count |-> st.added_count + 1]
    ELSE [st EXCEPT !.seen_hex = IF hex_val.kind = "str" THEN @ \cup {hex_val.s} ELSE @]

\* the try block: hex_to_rgb raises before anything is changed, and the
\* bare except swallows it
admit(st, clean_name, hex_val, res) ==
    IF res.ok
    THEN [final_colors |-> add_color(st.final_colors,
                             <<clean_name, res.rgb[1], res.rgb[2], res.rgb[3]>>),
          seen_hex |-> st.seen_hex \cup {hex_val.s},
          seen_names |-> st.seen_names \cup {Lower(clean_name)},
          added_count |-> st.added_count + 1]
    ELSE st

\* one iteration of "for item in parsed_new_colors"; raised: name.title()
\* is outside the try block and raises AttributeError on a name that is
\* not a string
merge_record(st, item) ==
    IF item.name.kind # "str" THEN [raised |-> TRUE, st |-> st]
    ELSE
      LET clean_name == Title(item.name.s)
      IN  IF hex_seen(item.hex, st.seen_hex) THEN [raised |-> FALSE, st |-> st]
          ELSE IF name_seen(clean_name, st.seen_names) THEN [raised |-> FALSE, st |-> st]
          ELSE [raised |-> FALSE,
                st |-> admit(st, clean_name, item.hex, hex_to_rgb(item.hex))]

RECURSIVE merge_loop(_, _)
\* the whole loop "for item in parsed_new_colors" from state st; a raise
\* ends it
merge_loop(st, records) ==
    IF records = <<>> THEN [raised |-> FALSE, st |-> st]
    ELSE LET one == merge_record(st, Head(records))
         IN  IF one.raised THEN one ELSE merge_loop(one.st, Tail(records))

\* step 3 of main as a function of the existing entries and the records
merge(existing, records) == merge_loop(seed_state(existing), records)

MergeState ==
    [final_colors |-> final_colors, seen_hex |-> seen_hex,
     seen_names |-> seen_names, added_count |-> added_count]

(***************************************************************************)
(* getColorName of the generated ColorNamer object.                        *)
(***************************************************************************)
Unknown == <<"U", "n", "k", "n", "o", "w", "n">>

\* calculateDistance returns sqrt(d2) as a Double.  d2 is an integer below
\* 2^53 and distinct integers of this size have distinct, equally ordered
\* square roots in double precision, so the distance is carried as d2.
calculateDistance(r1, g1, b1, r2, g2, b2) ==
    (r2 - r1) * (r2 - r1) + (g2 - g1) * (g2 - g1) + (b2 - b1) * (b2 - b1)

\* Double.MAX_VALUE: above every distance between the colours explored
DoubleMax == 4 * 256 * 256

closer_or_equal(distance, min) == distance <= min

\* "if (distance < minDistance)"
closer(distance, min) == distance < min

(***************************************************************************)
(* The run of main.                                                        *)
(***************************************************************************)
MatcherOff ==
    /\ colorList = <<>>
    /\ query = <<0, 0, 0>>
    /\ minDistance = DoubleMax
    /\ closestColorName = Unknown
    /\ mpc = "off"
    /\ mi = 1

Init ==
    /\ pc = "fetch"
    /\ provider \in Providers
    /\ disk \in {full_content(E) : E \in ExistingLists}
    /\ new_colors_data = [shape |-> "list", items |-> <<>>]
    /\ parsed_new_colors = <<>>
    /\ existing_matches = <<>>
    /\ final_colors = <<>>
    /\ seen_hex = {}
    /\ seen_names = {}
    /\ added_count = 0
    /\ idx = 1
    /\ MatcherOff

\* get_more_colors: the request succeeds and the body decodes
FetchOk ==
    /\ pc = "fetch"
    /\ new_colors_data' = provider
    /\ pc' = "flatten"
    /\ UNCHANGED <<provider, disk, parsed_new_colors, existing_matches,
                   final_colors, seen_hex, seen_names, added_count, idx>>
    /\ UNCHANGED matchVars

\* get_more_colors: any exception is caught and [] is returned
FetchFails ==
    /\ pc = "fetch"
    /\ new_colors_data' = [shape |-> "list", items |-> <<>>]
    /\ pc' = "flatten"
    /\ UNCHANGED <<provider, disk, parsed_new_colors, existing_matches,
                   final_colors, seen_hex, seen_names, added_count, idx>>
    /\ UNCHANGED matchVars

Flatten ==
    /\ pc = "flatten"
    /\ ~flatten(new_colors_data).raised
    /\ parsed_new_colors' = flatten(new_colors_data).out
    /\ pc' = "read"
    /\ UNCHANGED <<provider, disk, new_colors_data, existing_matches,
                   final_colors, seen_hex, seen_names, added_count, idx>>
    /\ UNCHANGED matchVars

FlattenRaises ==
    /\ pc = "flatten"
    /\ flatten(new_colors_data).raised
    /\ parsed_new_colors' = flatten(new_colors_data).out
    /\ pc' = "aborted"
    /\ UNCHANGED <<provider, disk, new_colors_data, existing_matches,
                   final_colors, seen_hex, seen_names, added_count, idx>>
    /\ UNCHANGED matchVars

\* read_existing_file and pattern.findall
ReadExisting ==
    /\ pc = "read"
    /\ existing_matches' = findall(disk)
    /\ pc' = "seed"
    /\ UNCHANGED <<provider, disk, new_colors_data, parsed_new_colors,
                   final_colors, seen_hex, seen_names, added_count, idx>>
    /\ UNCHANGED matchVars

\* open(path, 'r') raises: the file is missing or unreadable
ReadExistingRaises ==
    /\ pc = "read"
    /\ pc' = "aborted"
    /\ UNCHANGED <<provider, disk, new_colors_data, parsed_new_colors,
                   existing_matches, final_colors, seen_hex, seen_names,
                   added_count, idx>>
    /\ UNCHANGED matchVars

\* "Keep existing colors (Priority)"
SeedExisting ==
    /\ pc = "seed"
    /\ LET st == seed_state(seed_colors(existing_matches))
       IN  /\ final_colors' = st.final_colors
           /\ seen_hex' = st.seen_hex
           /\ seen_names' = st.seen_names
           /\ added_count' = st.added_count
    /\ idx' = 1
    /\ pc' = "merge"
    /\ UNCHANGED <<provider, disk, new_colors_data, parsed_new_colors, existing_matches>>
    /\ UNCHANGED matchVars

MergeStep ==
    /\ pc = "merge"
    /\ idx <= Len(parsed_new_colors)
    /\ LET res == merge_record(MergeState, parsed_new_colors[idx])
       IN  /\ ~res.raised
           /\ final_colors' = res.st.final_colors
           /\ seen_hex' = res.st.seen_hex
           /\ seen_names' = res.st.seen_names
           /\ added_count' = res.st.added_count
    /\ idx' = idx + 1
    /\ UNCHANGED <<pc, provider, disk, new_colors_data, parsed_new_colors, existing_matches>>
    /\ UNCHANGED matchVars

MergeRaises ==
    /\ pc = "merge"
    /\ idx <= Len(parsed_new_colors)
    /\ merge_record(MergeState, parsed_new_colors[idx]).raised
    /\ pc' = "aborted"
    /\ UNCHANGED <<provider, disk, new_colors_data, parsed_new_colors,
                   existing_matches, final_colors, seen_hex, seen_names,
                   added_count, idx>>
    /\ UNCHANGED matchVars

\* f.write encodes the whole text before any byte reaches the file
Encodable(text) == \A i \in DOMAIN text : text[i] # Surrogate

\* step 4 up to "with open(kt_file_path, 'w') as f": the text is built and
\* opening the file for writing truncates it
OpenOutput ==
    /\ pc = "merge"
    /\ idx > Len(parsed_new_colors)
    /\ disk' = <<>>
    /\ pc' = "write"
    /\ UNCHANGED <<provider, new_colors_data, parsed_new_colors, existing_matches,
                   final_colors, seen_hex, seen_names, added_count, idx>>
    /\ UNCHANGED matchVars

\* open(kt_file_path, 'w') raises: the file cannot be opened for writing
OpenOutputRaises ==
    /\ pc = "merge"
    /\ idx > Len(parsed_new_colors)
    /\ pc' = "aborted"
    /\ UNCHANGED <<provider, disk, new_colors_data, parsed_new_colors,
                   existing_matches, final_colors, seen_hex, seen_names,
                   added_count, idx>>
    /\ UNCHANGED matchVars

\* f.write(full_content) and the end of the with block
WriteOutput ==
    /\ pc = "write"
    /\ Encodable(full_content(final_colors))
    /\ disk' = full_content(final_colors)
    /\ pc' = "done"
    /\ UNCHANGED <<provider, new_colors_data, parsed_new_colors, existing_matches,
                   final_colors, seen_hex, seen_names, added_count, idx>>
    /\ UNCHANGED matchVars

\* f.write raises UnicodeEncodeError: the text cannot be encoded, nothing
\* reaches the file and it stays truncated
WriteOutputEncodeError ==
    /\ pc = "write"
    /\ ~Encodable(full_content(final_colors))
    /\ pc' = "aborted"
    /\ UNCHANGED <<provider, disk, new_colors_data, parsed_new_colors,
                   existing_matches, final_colors, seen_hex, seen_names,
                   added_count, idx>>
    /\ UNCHANGED matchVars

\* the tokens of the text that stand for more than one character
LongTokens ==
    {header[1], header[2], header[4], footer[1], footer[3], "        "}

\* a proper, non-empty part of the long token at its position
Fragment == "<fragment>"

\* what the file can hold when the write stops early: the text up to any
\* character, that is k whole tokens and possibly a part of the next one
PartialTexts(text) ==
    {SubSeq(text, 1, k) : k \in 0..(Len(text) - 1)}
    \cup {Append(SubSeq(text, 1, k), Fragment) :
            k \in {n \in 0..(Len(text) - 1) : text[n + 1] \in LongTokens}}

\* f.write or the flush at the end of the with block raises OSError (file
\* size limit, full device): the file holds the part of the text that was
\* written before the fault
WriteOutputFault ==
    /\ pc = "write"
    /\ Encodable(full_content(final_colors))
    /\ disk' \in PartialTexts(full_content(final_colors))
    /\ pc' = "aborted"
    /\ UNCHANGED <<provider, new_colors_data, parsed_new_colors,
                   existing_matches, final_colors, seen_hex, seen_names,
                   added_count, idx>>
    /\ UNCHANGED matchVars

Next ==
    \/ FetchOk
    \/ FetchFails
    \/ Flatten
    \/ FlattenRaises
    \/ ReadExisting
    \/ ReadExistingRaises
    \/ SeedExisting
    \/ MergeStep
    \/ MergeRaises
    \/ OpenOutput
    \/ OpenOutputRaises
    \/ WriteOutput
    \/ WriteOutputEncodeError
    \/ WriteOutputFault

Spec == Init /\ [][Next]_vars

(***************************************************************************)
(* Runs of getColorName over an arbitrary colorList.                       *)
(***************************************************************************)
MatcherEntries ==
    {<<<<"R", "e", "d">>, 255, 0, 0>>,
     <<<<"B", "l", "a", "c", "k">>, 0, 0, 0>>,
     <<Unknown, 0, 255, 0>>,
     <<<<"L", "i", "m", "e">>, 0, 255, 0>>}

QueryChannels == {0, 10, 250}

InitMatcher ==
    /\ pc = "off"
    /\ provider = [shape |-> "list", items |-> <<>>]
    /\ disk = <<>>
    /\ new_colors_data = [shape |-> "list", items |-> <<>>]
    /\ parsed_new_colors = <<>>
    /\ existing_matches = <<>>
    /\ final_colors = <<>>
    /\ seen_hex = {}
    /\ seen_names = {}
    /\ added_count = 0
    /\ idx = 1
    /\ colorList \in SeqsUpTo(MatcherEntries, MaxCatalog)
    /\ query = <<0, 0, 0>>
    /\ minDistance = DoubleMax
    /\ closestColorName = Unknown
    /\ mpc = "idle"
    /\ mi = 1

\* entry of getColorName: Color.red/green/blue and the two locals
GetColorNameCall ==
    /\ mpc = "idle"
    /\ \E r \in QueryChannels, g \in QueryChannels, b \in QueryChannels :
          query' = <<r, g, b>>
    /\ minDistance' = DoubleMax
    /\ closestColorName' = Unknown
    /\ mi' = 1
    /\ mpc' = "loop"
    /\ UNCHANGED colorList
    /\ UNCHANGED pipeVars

\* one iteration of "for (namedColor in colorList)"
GetColorNameIter ==
    /\ mpc = "loop"
    /\ mi <= Len(colorList)
    /\ LET namedColor == colorList[mi]
           distance == calculateDistance(query[1], query[2], query[3],
                                         namedColor[2], namedColor[3], namedColor[4])
       IN  IF closer(distance, minDistance)
           THEN /\ minDistance' = distance
                /\ closestColorName' = namedColor[1]
           ELSE UNCHANGED <<minDistance, closestColorName>>
    /\ mi' = mi + 1
    /\ UNCHANGED <<colorList, query, mpc>>
    /\ UNCHANGED pipeVars

\* "return closestColorName"
GetColorNameReturn ==
    /\ mpc = "loop"
    /\ mi > Len(colorList)
    /\ mpc' = "returned"
    /\ UNCHANGED <<colorList, query, minDistance, closestColorName, mi>>
    /\ UNCHANGED pipeVars

NextMatcher ==
    \/ GetColorNameCall
    \/ GetColorNameIter
    \/ GetColorNameReturn

SpecMatcher == InitMatcher /\ [][NextMatcher]_vars

(***************************************************************************)
(* Vocabulary of the properties.                                           *)
(***************************************************************************)
\* the merge loop has started (the catalog is seeded) and has not raised
Merging == pc \in {"merge", "write", "done"}

NumExisting == Len(existing_matches)

\* the entries the merge appended after the existing ones
AddedEntries == SubSeq(final_colors, NumExisting + 1, Len(final_colors))

\* the records the loop has gone through so far
Processed == SubSeq(parsed_new_colors, 1, idx - 1)

\* lowercase rrggbb recomputed from r, g, b
NormalizedHex(e) == Tail(format_hex(e[2], e[3], e[4]))

DistinctHex(colors) ==
    \A i, j \in DOMAIN colors : i # j => NormalizedHex(colors[i]) # NormalizedHex(colors[j])

DistinctNames(colors) ==
    \A i, j \in DOMAIN colors : i # j => Lower(colors[i][1]) # Lower(colors[j][1])

\* one optional leading '#', then exactly six hexadecimal digits
ValidHex(v) ==
    /\ v.kind = "str"
    /\ LET h == IF v.s # <<>> /\ Head(v.s) = "#" THEN Tail(v.s) ELSE v.s
       IN  Len(h) = 6 /\ \A i \in DOMAIN h : IsHexDigit(h[i])

\* the record can yield an entry at all
Parses(rec) == rec.name.kind = "str" /\ hex_to_rgb(rec.hex).ok

EntryOf(rec) ==
    <<Title(rec.name.s), hex_to_rgb(rec.hex).rgb[1], hex_to_rgb(rec.hex).rgb[2],
      hex_to_rgb(rec.hex).rgb[3]>>

RECURSIVE EntriesOf(_)
\* the entries of the records that can yield one, in record order
EntriesOf(recs) ==
    IF recs = <<>> THEN <<>>
    ELSE (IF Parses(Head(recs)) THEN <<EntryOf(Head(recs))>> ELSE <<>>)
            \o EntriesOf(Tail(recs))

RECURSIVE ValidEntriesOf(_)
\* the same, of the records whose hex is valid
ValidEntriesOf(recs) ==
    IF recs = <<>> THEN <<>>
    ELSE (IF Parses(Head(recs)) /\ ValidHex(Head(recs).hex)
          THEN <<EntryOf(Head(recs))>> ELSE <<>>)
            \o ValidEntriesOf(Tail(recs))

RECURSIVE IsSubsequence(_, _)
\* a can be obtained from b by deleting elements, order kept
IsSubsequence(a, b) ==
    IF a = <<>> THEN TRUE
    ELSE IF b = <<>> THEN FALSE
    ELSE IF Head(a) = Head(b) THEN IsSubsequence(Tail(a), Tail(b))
    ELSE IsSubsequence(a, Tail(b))

InRange(e) == e[2] \in 0..255 /\ e[3] \in 0..255 /\ e[4] \in 0..255

Dist2(e, q) ==
    (e[2] - q[1]) * (e[2] - q[1]) + (e[3] - q[2]) * (e[3] - q[2])
      + (e[4] - q[3]) * (e[4] - q[3])

(***************************************************************************)
(* C1: when the existing entries are pairwise distinct in normalized hex,  *)
(* the merged catalog has no two entries with the same normalized hex.     *)
(* The loop tests the raw hex string of the record against keys of the     *)
(* form "#rrggbb", so this fails.                                          *)
(***************************************************************************)
HexUniqueness ==
    (pc = "done" /\ DistinctHex(seed_colors(existing_matches)))
        => DistinctHex(final_colors)

(***************************************************************************)
(* C2: when the existing entries are pairwise distinct in lowercased name, *)
(* no two entries of the catalog have the same name up to letter case,     *)
(* whatever their hex values.                                              *)
(***************************************************************************)
NameUniqueness ==
    (Merging /\ DistinctNames(seed_colors(existing_matches)))
        => DistinctNames(final_colors)

\* a record with a colour that is not in the catalog was turned away
\* because its name, up to case, was already there
NameUniquenessWitness ==
    /\ pc = "done"
    /\ DistinctNames(seed_colors(existing_matches))
    /\ \E k \in DOMAIN parsed_new_colors :
         LET rec == parsed_new_colors[k]
         IN  /\ Parses(rec)
             /\ ValidHex(rec.hex)
             /\ \A i \in DOMAIN final_colors :
                    NormalizedHex(final_colors[i]) # NormalizedHex(EntryOf(rec))
             /\ \E i \in DOMAIN final_colors :
                    /\ Lower(final_colors[i][1]) = Lower(EntryOf(rec)[1])
                    /\ final_colors[i][1] # rec.name.s

(***************************************************************************)
(* C3: the catalog starts with the existing entries exactly as extracted,  *)
(* in file order, and the admitted entries follow them in the order of     *)
(* their records.                                                          *)
(***************************************************************************)
PriorityAndOrder ==
    Merging =>
        /\ Len(final_colors) >= NumExisting
        /\ \A i \in 1..NumExisting :
              /\ final_colors[i][1] = existing_matches[i][1]
              /\ Dec(final_colors[i][2]) = existing_matches[i][2]
              /\ Dec(final_colors[i][3]) = existing_matches[i][3]
              /\ Dec(final_colors[i][4]) = existing_matches[i][4]
        /\ IsSubsequence(AddedEntries, EntriesOf(Processed))

\* two different existing entries and two different admitted entries
PriorityAndOrderWitness ==
    /\ pc = "done"
    /\ NumExisting >= 2
    /\ final_colors[1] # final_colors[2]
    /\ Len(AddedEntries) >= 2
    /\ AddedEntries[1] # AddedEntries[2]

(***************************************************************************)
(* C4: a record whose hex is not valid is never admitted, and every        *)
(* admitted entry has r, g, b in 0..255.  hex_to_rgb strips every leading  *)
(* '#', reads only the first six characters and lets int() accept signs    *)
(* and short slices, so this fails.                                        *)
(***************************************************************************)
InvalidHexNeverAdmitted ==
    Merging =>
        /\ \A i \in DOMAIN AddedEntries : InRange(AddedEntries[i])
        /\ IsSubsequence(AddedEntries, ValidEntriesOf(Processed))

(***************************************************************************)
(* C5: every entry of the catalog has a name that is not empty after       *)
(* trimming.  The mapping shape is flattened without any test and the      *)
(* list shape only tests truthiness, so this fails.                        *)
(***************************************************************************)
NamesNonEmpty ==
    Merging => \A i \in DOMAIN final_colors : Strip(final_colors[i][1]) # <<>>

(***************************************************************************)
(* C6: merging the same records into the merged catalog gives the same     *)
(* catalog and adds nothing.                                               *)
(***************************************************************************)
MergeIdempotent ==
    pc = "done" =>
        LET again == merge(final_colors, parsed_new_colors)
        IN  /\ ~again.raised
            /\ again.st.final_colors = final_colors
            /\ again.st.added_count = 0

(***************************************************************************)
(* C7: extracting the entries from the written artifact gives back the     *)
(* catalog (entries in range, names not blank), same values, same order.   *)
(* replace('"', '\"') replaces a quote by itself and the pattern stops a   *)
(* name at the first quote, so a name with a quote is lost.                *)
(***************************************************************************)
ValidCatalog(colors) ==
    \A i \in DOMAIN colors : InRange(colors[i]) /\ Strip(colors[i][1]) # <<>>

RoundTrip ==
    (pc = "done" /\ ValidCatalog(final_colors))
        => seed_colors(findall(disk)) = final_colors

(***************************************************************************)
(* C8 as stated: getColorName returns the name of the earliest entry at    *)
(* minimal distance, and returns "Unknown" exactly when the catalog is     *)
(* empty.                                                                  *)
(***************************************************************************)
NearestFirst ==
    colorList # <<>> =>
        \E i \in DOMAIN colorList :
            /\ closestColorName = colorList[i][1]
            /\ \A j \in DOMAIN colorList : Dist2(colorList[i], query) <= Dist2(colorList[j], query)
            /\ \A j \in 1..(i - 1) : Dist2(colorList[j], query) > Dist2(colorList[i], query)

MatcherUnknownIffEmpty ==
    mpc = "returned" =>
        /\ NearestFirst
        /\ (closestColorName = Unknown <=> colorList = <<>>)

(***************************************************************************)
(* C8 amended: getColorName returns the name of the earliest entry at      *)
(* minimal distance; on an empty catalog it returns "Unknown"; on a        *)
(* non-empty catalog the result is always the name of an entry, which can  *)
(* itself be "Unknown".                                                    *)
(***************************************************************************)
MatcherNearest ==
    mpc = "returned" =>
        /\ NearestFirst
        /\ (colorList = <<>> => closestColorName = Unknown)

\* two entries with different names tie at the minimal distance
MatcherNearestWitness ==
    /\ mpc = "returned"
    /\ \E i, j \in DOMAIN colorList :
          /\ i < j
          /\ colorList[i][1] # colorList[j][1]
          /\ Dist2(colorList[i], query) = Dist2(colorList[j], query)
          /\ \A k \in DOMAIN colorList : Dist2(colorList[i], query) <= Dist2(colorList[k], query)

(***************************************************************************)
(* C9: the artifact changes only in step 4, after the existing artifact   *)
(* has been read and the merge has gone through every record, so a run     *)
(* that aborts before step 4 leaves it unchanged; and no single record     *)
(* aborts the run.  name.title() is outside the try block, so a record     *)
(* whose name is not a string aborts the run.                              *)
(***************************************************************************)
MergeFinished == pc \in {"merge", "write"} /\ idx > Len(parsed_new_colors)

NoPartialWrite ==
    [][ /\ (disk' # disk => MergeFinished)
        /\ ((pc' = "aborted" /\ ~MergeFinished) => disk' = disk)
        /\ ((pc = "merge" /\ idx <= Len(parsed_new_colors)) => pc' # "aborted") ]_vars

(***************************************************************************)
(* C10: one iteration of the merge loop either admits the record (catalog  *)
(* and addedCount grow by one, its hex and lowercased name join the seen   *)
(* sets) or changes none of the four; a record whose hex cannot be parsed  *)
(* changes nothing; addedCount is the catalog length minus the number of   *)
(* existing entries.                                                       *)
(***************************************************************************)
MergeFrame ==
    [][ (pc = "merge" /\ idx <= Len(parsed_new_colors)) =>
          LET rec == parsed_new_colors[idx]
              unchanged == /\ final_colors' = final_colors
                           /\ seen_hex' = seen_hex
                           /\ seen_names' = seen_names
                           /\ added_count' = added_count
              admitted == /\ Len(final_colors') = Len(final_colors) + 1
                          /\ SubSeq(final_colors', 1, Len(final_colors)) = final_colors
                          /\ added_count' = added_count + 1
                          /\ rec.hex.kind = "str"
                          /\ rec.name.kind = "str"
                          /\ seen_hex' = seen_hex \cup {rec.hex.s}
                          /\ seen_names' = seen_names \cup {Lower(Title(rec.name.s))}
          IN  /\ admitted \/ unchanged
              /\ ~hex_to_rgb(rec.hex).ok => unchanged
              /\ added_count' = Len(final_colors') - NumExisting ]_vars

\* the loop has admitted a record and has turned one away only because its
\* hex did not parse
MergeFrameWitness ==
    /\ Merging
    /\ added_count >= 1
    /\ \E k \in DOMAIN Processed :
          /\ Processed[k].name.kind = "str"
          /\ Processed[k].hex.kind = "str"
          /\ ~hex_to_rgb(Processed[k].hex).ok
          /\ Processed[k].hex.s \notin seen_hex
          /\ Lower(Title(Processed[k].name.s)) \notin seen_names

====
